---- MODULE Spec2Model ----
(***************************************************************************)
(* The page-by-page listing of service authorizations of the go-fastly     *)
(* client: ListServiceAuthorizationsPaginator (HasNext, Remaining,         *)
(* GetNext) and Client.listServiceAuthorizationsWithPage, from             *)
(* src/fastly/service_authorization.go; two goroutines sharing one         *)
(* paginator; the create/read/update/delete operations of the service      *)
(* authorizations; GetWAFRuleStatuses of src/fastly/waf.go; and the        *)
(* validation of the gzip operations that src/fastly/gzip_test.go tests.   *)
(*                                                                         *)
(* Query parameters and the page[number] values of pagination links are    *)
(* strings in the program; here a string is a sequence of one-character    *)
(* strings, so that strconv.Itoa and strconv.Atoi are modelled by what     *)
(* they do to the characters.                                              *)
(***************************************************************************)
EXTENDS Integers, Sequences, FiniteSets, TLC

VARIABLES i, p, requests, rets, resp, pre, L, pc, calls, ops, waf

vars == <<i, p, requests, rets, resp, pre, L, pc, calls, ops, waf>>

(***************************************************************************)
(* Bounds of the model.                                                    *)
(***************************************************************************)
\* GetNext calls made on one paginator by the free caller.
MaxCalls == 3
\* Largest starting page a caller passes in ListServiceAuthorizationsInput.Page.
MaxPageOpt == 2
\* Largest page[number] a pagination link of a response names.
MaxLinkPage == 2
\* Largest page count of the well-behaved server of the caller's loop.
MaxL == 3

\* Operations recorded in the log of the create/read/update/delete operations.
MaxOps == 2

\* Pages the server of the WAF rule statuses chains with next links.
MaxWafPages == 3

\* Calls after which the caller's loop is cut off (a loop that has not ended
\* by then is one that never ends on its own).
MaxLoopCalls == MaxL + MaxPageOpt + 2

(***************************************************************************)
(* Inputs.                                                                 *)
(***************************************************************************)
\* ListServiceAuthorizationsInput.PerPage: negative, zero, small, the
\* default and above the default.
PerPageOpts == {-1, 0, 25, 250}

\* ListServiceAuthorizationsInput.Page: negative, zero and explicit pages.
PageOpts == -1 .. MaxPageOpt

(***************************************************************************)
(* strconv.Itoa and strconv.Atoi over strings of characters.               *)
(***************************************************************************)
Digits == <<"0", "1", "2", "3", "4", "5", "6", "7", "8", "9">>

RECURSIVE Utoa(_)
Utoa(n) == IF n < 10 THEN <<Digits[n + 1]>>
           ELSE Utoa(n \div 10) \o <<Digits[(n % 10) + 1]>>

\* strconv.Itoa: the decimal text of n, with a leading "-" when negative.
Itoa(n) == IF n < 0 THEN <<"-">> \o Utoa(0 - n) ELSE Utoa(n)

IsDigit(c) == \E d \in 1..10 : Digits[d] = c

DigitVal(c) == (CHOOSE d \in 1..10 : Digits[d] = c) - 1

RECURSIVE DigitsVal(_)
DigitsVal(s) == IF s = <<>> THEN 0
                ELSE 10 * DigitsVal(SubSeq(s, 1, Len(s) - 1)) + DigitVal(s[Len(s)])

\* strconv.Atoi: an optional sign followed by one or more decimal digits;
\* anything else is a syntax error, returned with the value 0.
Atoi(s) ==
  LET signed == s # <<>> /\ s[1] \in {"+", "-"}
      body == IF signed THEN Tail(s) ELSE s
      good == body # <<>> /\ \A k \in 1..Len(body) : IsDigit(body[k])
  IN IF ~good THEN [val |-> 0, ok |-> FALSE]
     ELSE [val |-> IF signed /\ s[1] = "-" THEN 0 - DigitsVal(body) ELSE DigitsVal(body),
           ok |-> TRUE]

(***************************************************************************)
(* Responses of the server.                                                *)
(***************************************************************************)
\* Values of the page[number] query parameter of a link: numbers, the empty
\* string and a non-numeric string.
LinkNums == 0 .. MaxLinkPage

PageStrings == {Itoa(n) : n \in LinkNums} \cup {<<>>, <<"a", "b", "c">>}

\* A pagination link of the links envelope:
\*   absent  - the field is missing or the empty string;
\*   badurl  - a string url.Parse rejects (it returns a nil *URL);
\*   noparam - a URL whose query has no page[number] parameter;
\*   param   - a URL with page[number]=num.
AbsentLink == [kind |-> "absent", num |-> <<>>]

NumLink(n) == [kind |-> "param", num |-> Itoa(n)]

Links == {[kind |-> k, num |-> <<>>] : k \in {"absent", "badurl", "noparam"}}
         \cup {[kind |-> "param", num |-> s] : s \in PageStrings}

\* What one HTTP round trip yields:
\*   transport - c.Get returns an error;
\*   info      - getResponseInfo returns an error;
\*   payload   - jsonapi.UnmarshalManyPayload (or the type assertion) fails;
\*   ok        - the body decodes, with the links next and last.
ErrResponses == {[kind |-> k, next |-> AbsentLink, last |-> AbsentLink] :
                   k \in {"transport", "info", "payload"}}

OkResponses == {[kind |-> "ok", next |-> n, last |-> l] : n \in Links, l \in Links}

Responses == ErrResponses \cup OkResponses

NoResponse == [kind |-> "none", next |-> AbsentLink, last |-> AbsentLink]

(***************************************************************************)
(* ListServiceAuthorizationsPaginator.                                     *)
(***************************************************************************)
\* NewListServiceAuthorizationsPaginator: every cursor field at its zero value.
NewPaginator == [consumed |-> FALSE, CurrentPage |-> 0, NextPage |-> 0, LastPage |-> 0]

\* Remaining that counts from NextPage instead of CurrentPage.
Remaining_FromNextPage(q) == IF q.LastPage = 0 THEN 0 ELSE q.LastPage - q.NextPage

\* Remaining without the test for an unknown last page.
Remaining_NoZeroTest(q) == q.LastPage - q.CurrentPage

Remaining(q) == IF q.LastPage = 0 THEN 0 ELSE q.LastPage - q.CurrentPage

\* HasNext without the !p.consumed disjunct.
HasNext_RemainingOnly(q) == Remaining(q) # 0

HasNext(q) == ~q.consumed \/ Remaining(q) # 0

(***************************************************************************)
(* Client.listServiceAuthorizationsWithPage, step by step.                 *)
(***************************************************************************)
maxPerPage == 100

\* perPage that takes the default for negative values only.
perPage_ZeroKept(in) == IF in.PerPage < 0 THEN maxPerPage ELSE in.PerPage

\* The effective page size.
perPage(in) == IF in.PerPage <= 0 THEN maxPerPage ELSE in.PerPage

\* PageToRequest that ignores the caller's starting page.
PageToRequest_NoStart(in, q) ==
  IF q.CurrentPage = 0 THEN 1 ELSE q.CurrentPage + 1

\* PageToRequest that steps by the page it is on.
PageToRequest_Skip(in, q) ==
  IF in.Page <= 0 /\ q.CurrentPage = 0 THEN 1
  ELSE IF ~q.consumed THEN in.Page
       ELSE q.CurrentPage + q.CurrentPage

\* PageToRequest that follows the recorded next link once consumed.
PageToRequest_FollowNext(in, q) ==
  IF in.Page <= 0 /\ q.CurrentPage = 0 THEN 1
  ELSE IF ~q.consumed THEN in.Page
       ELSE q.NextPage

\* The page to request, stored in p.CurrentPage before the request is built.
PageToRequest(in, q) ==
  IF in.Page <= 0 /\ q.CurrentPage = 0 THEN 1
  ELSE IF ~q.consumed THEN in.Page
       ELSE q.CurrentPage + 1

\* The query parameters of the request.
requestOptions(in, q) ==
  [size |-> Itoa(perPage(in)), number |-> Itoa(q.CurrentPage)]

\* u.Query() on the nil *URL of a rejected link dereferences nil, and
\* query["page[number]"][0] on a query without the parameter indexes an empty
\* slice: both abort the call.
LinkPanics(l) == l.kind \in {"badurl", "noparam"}

\* The value a present link leaves in its cursor field: the number
\* strconv.Atoi returns, its error dropped.
LinkPage(l) == Atoi(l.num).val

\* SetNextPage that assigns only when strconv.Atoi reports no error.
SetNextPage_Checked(q, l) ==
  IF l.kind = "absent" \/ ~Atoi(l.num).ok THEN q
  ELSE [q EXCEPT !.NextPage = LinkPage(l)]

\* SetNextPage that clears the field when the link is absent.
SetNextPage_Clearing(q, l) ==
  IF l.kind = "absent" THEN [q EXCEPT !.NextPage = 0]
  ELSE [q EXCEPT !.NextPage = LinkPage(l)]

\* if l := info.Links.Next; l != "" { ... p.NextPage, _ = strconv.Atoi(...) }
SetNextPage(q, l) ==
  IF l.kind = "absent" THEN q ELSE [q EXCEPT !.NextPage = LinkPage(l)]

\* SetLastPage that only ever raises LastPage.
SetLastPage_Raising(q, l) ==
  IF l.kind = "absent" \/ LinkPage(l) < q.LastPage THEN q
  ELSE [q EXCEPT !.LastPage = LinkPage(l)]

\* if l := info.Links.Last; l != "" { ... p.LastPage, _ = strconv.Atoi(...) }
SetLastPage(q, l) ==
  IF l.kind = "absent" THEN q ELSE [q EXCEPT !.LastPage = LinkPage(l)]

\* The outcome of the call for the caller.
Outcome(r) ==
  IF r.kind # "ok" THEN "error"
  ELSE IF LinkPanics(r.next) \/ LinkPanics(r.last) THEN "panic"
  ELSE "items"

\* AfterResponse that marks the paginator consumed as soon as the request
\* has been issued.
AfterResponse_ConsumedOnIssue(q, r) ==
  IF r.kind # "ok" THEN [q EXCEPT !.consumed = TRUE]
  ELSE IF LinkPanics(r.next) THEN [q EXCEPT !.consumed = TRUE]
  ELSE IF LinkPanics(r.last) THEN [SetNextPage(q, r.next) EXCEPT !.consumed = TRUE]
  ELSE [SetLastPage(SetNextPage(q, r.next), r.last) EXCEPT !.consumed = TRUE]

\* The paginator after the call, q being the paginator with CurrentPage
\* already advanced.
AfterResponse(q, r) ==
  IF r.kind # "ok" THEN q
  ELSE IF LinkPanics(r.next) THEN q
  ELSE IF LinkPanics(r.last) THEN SetNextPage(q, r.next)
  ELSE [SetLastPage(SetNextPage(q, r.next), r.last) EXCEPT !.consumed = TRUE]

\* Gets that repeats the request once after a transport error.
Gets_Retry(in, q, r) ==
  IF r.kind = "transport" THEN <<requestOptions(in, q), requestOptions(in, q)>>
  ELSE <<requestOptions(in, q)>>

\* The HTTP GETs one call issues: resp, err := c.Get(...), once, with the
\* error returned at once.
Gets(in, q, r) == <<requestOptions(in, q)>>

\* One call of GetNext answered by the round trip r.
listServiceAuthorizationsWithPage(r) ==
  LET q == [p EXCEPT !.CurrentPage = PageToRequest(i, p)]
  IN /\ requests' = requests \o Gets(i, q, r)
     /\ p' = AfterResponse(q, r)
     /\ rets' = Append(rets, Outcome(r))
     /\ resp' = r
     /\ pre' = p
     /\ UNCHANGED <<i, L, pc, calls, ops, waf>>

\* The process is gone once a call has aborted.
Aborted == rets # <<>> /\ rets[Len(rets)] = "panic"

\* GetNext called by a caller that does not consult HasNext, against any server.
GetNext ==
  /\ pc = "free"
  /\ ~Aborted
  /\ Len(requests) < MaxCalls
  /\ \E r \in Responses : listServiceAuthorizationsWithPage(r)

\* The server of the caller's loop: it has L pages, names page L in the last
\* link of every response and the following page in the next link of every
\* page but the last.
ServerResponse(n) ==
  [kind |-> "ok",
   next |-> IF n >= 1 /\ n < L THEN NumLink(n + 1) ELSE AbsentLink,
   last |-> NumLink(L)]

\* for p.HasNext() { p.GetNext() }, one iteration.
LoopGetNext ==
  /\ pc = "loop"
  /\ HasNext(p)
  /\ Len(requests) < MaxLoopCalls
  /\ listServiceAuthorizationsWithPage(ServerResponse(PageToRequest(i, p)))

\* The loop ends when HasNext() is false.
LoopExit ==
  /\ pc = "loop"
  /\ ~HasNext(p)
  /\ pc' = "done"
  /\ UNCHANGED <<i, p, requests, rets, resp, pre, L, calls, ops, waf>>

\* No GetNext call is in flight on any goroutine.
NoCalls == [t \in {1, 2} |-> [at |-> "idle", page |-> 0, sent |-> <<>>, overlap |-> FALSE]]

\* No GetWAFRuleStatuses call has been made.
NoWaf == [at |-> "idle", in |-> [Service |-> "", WAF |-> ""], depth |-> 0,
          path |-> <<>>, fetched |-> <<>>, got |-> <<>>, failed |-> FALSE,
          rules |-> <<>>, err |-> "nil"]

Init ==
  /\ i \in [PerPage : PerPageOpts, Page : PageOpts]
  /\ p = NewPaginator
  /\ requests = <<>>
  /\ rets = <<>>
  /\ resp = NoResponse
  /\ pre = NewPaginator
  /\ L = 0
  /\ pc = "free"
  /\ calls = NoCalls
  /\ ops = <<>>
  /\ waf = NoWaf

Next == GetNext

Spec == Init /\ [][Next]_vars

InitLoop ==
  /\ i \in [PerPage : PerPageOpts, Page : PageOpts]
  /\ p = NewPaginator
  /\ requests = <<>>
  /\ rets = <<>>
  /\ resp = NoResponse
  /\ pre = NewPaginator
  /\ L \in 1 .. MaxL
  /\ pc = "loop"
  /\ calls = NoCalls
  /\ ops = <<>>
  /\ waf = NoWaf

NextLoop == LoopGetNext \/ LoopExit

SpecLoop == InitLoop /\ [][NextLoop]_vars

(***************************************************************************)
(* Two goroutines calling GetNext on one paginator.  The paginator has no  *)
(* lock: the reads of lines 226-233, the store to p.CurrentPage, the read  *)
(* of p.CurrentPage that builds the request and the stores of lines        *)
(* 274-285 of one call interleave with those of the other.                 *)
(***************************************************************************)
Goroutines == {1, 2}

Other(t) == 3 - t

\* Lines 226-233, the reads: the page this call decides to move to.
raceCompute(t) ==
  /\ pc = "race"
  /\ calls[t].at = "idle"
  /\ Len(requests) + Cardinality({u \in Goroutines : calls[u].at \in {"computed", "stored"}})
       < MaxCalls
  /\ calls' = [calls EXCEPT ![t] = [at |-> "computed", page |-> PageToRequest(i, p),
                                    sent |-> <<>>, overlap |-> FALSE]]
  /\ UNCHANGED <<i, p, requests, rets, resp, pre, L, pc, ops, waf>>

\* Lines 227, 231, 233, the store: p.CurrentPage = ...
raceStore(t) ==
  /\ pc = "race"
  /\ calls[t].at = "computed"
  /\ p' = [p EXCEPT !.CurrentPage = calls[t].page]
  /\ calls' = [calls EXCEPT ![t].at = "stored"]
  /\ UNCHANGED <<i, requests, rets, resp, pre, L, pc, ops, waf>>

\* raceRequest built from the page the call itself computed.
raceRequest_Local(t) == requestOptions(i, [p EXCEPT !.CurrentPage = calls[t].page])

\* Lines 237-245: the request reads p.CurrentPage again.
raceRequest(t) == requestOptions(i, p)

\* Lines 237-247: the request is built and sent.  overlap records that the
\* other goroutine's call had stored its page by then and has not returned
\* since (raceReturn clears it).
raceGet(t) ==
  /\ pc = "race"
  /\ calls[t].at = "stored"
  /\ requests' = Append(requests, raceRequest(t))
  /\ calls' = [calls EXCEPT ![t] = [at |-> "requested", page |-> calls[t].page,
                                    sent |-> raceRequest(t).number,
                                    overlap |-> calls[Other(t)].at \in {"stored", "requested"}]]
  /\ UNCHANGED <<i, p, rets, resp, pre, L, pc, ops, waf>>

\* Lines 247-287: the response is decoded and the cursor fields are stored.
raceReturn(t) ==
  /\ pc = "race"
  /\ calls[t].at = "requested"
  /\ LET r == ServerResponse(Atoi(calls[t].sent).val)
     IN /\ p' = AfterResponse(p, r)
        /\ rets' = Append(rets, Outcome(r))
        /\ resp' = r
        /\ pre' = p
  /\ calls' = [calls EXCEPT ![t].at = "idle", ![Other(t)].overlap = FALSE]
  /\ UNCHANGED <<i, requests, L, pc, ops, waf>>

InitRace ==
  /\ i \in [PerPage : PerPageOpts, Page : PageOpts]
  /\ p = NewPaginator
  /\ requests = <<>>
  /\ rets = <<>>
  /\ resp = NoResponse
  /\ pre = NewPaginator
  /\ L \in 1 .. MaxL
  /\ pc = "race"
  /\ calls = NoCalls
  /\ ops = <<>>
  /\ waf = NoWaf

NextRace ==
  \E t \in Goroutines : raceCompute(t) \/ raceStore(t) \/ raceGet(t) \/ raceReturn(t)

SpecRace == InitRace /\ [][NextRace]_vars

(***************************************************************************)
(* GetServiceAuthorization, CreateServiceAuthorization,                    *)
(* UpdateServiceAuthorization and DeleteServiceAuthorization.  ops is the  *)
(* log of the operations called: the input, the HTTP requests issued and   *)
(* the error returned ("nil" for none).                                    *)
(***************************************************************************)
\* Identifiers: the empty string and a set one.
SAIDs == {"", "id"}

\* *SAService and *SAUser: a nil pointer, or a struct with its ID.
NilPtr == [nil |-> TRUE, ID |-> ""]

SAPtrs == {NilPtr} \cup {[nil |-> FALSE, ID |-> s] : s \in SAIDs}

\* What the server does with a request that reaches it.
SAReplies == {"ok", "transport", "decode"}

\* fmt.Sprintf("/service-authorizations/%s", i.ID)
SAPath(id) == <<"service-authorizations", id>>

\* The error of the round trip: c.Get and the like fail, or
\* jsonapi.UnmarshalPayload fails, or neither.
SAReplyErr(reply) == IF reply = "ok" THEN "nil" ELSE reply

GetServiceAuthorizationResult(in, reply) ==
  IF in.ID = "" THEN [http |-> <<>>, err |-> "ErrMissingID"]
  ELSE [http |-> <<[method |-> "GET", path |-> SAPath(in.ID)]>>,
        err |-> SAReplyErr(reply)]

\* CreateServiceAuthorizationResult that looks at the user first.
CreateServiceAuthorizationResult_UserFirst(in, reply) ==
  IF in.User.nil \/ in.User.ID = ""
    THEN [http |-> <<>>, err |-> "ErrMissingServiceAuthorizationsUser"]
  ELSE IF in.Service.nil \/ in.Service.ID = ""
    THEN [http |-> <<>>, err |-> "ErrMissingServiceAuthorizationsService"]
  ELSE [http |-> <<[method |-> "POST", path |-> <<"service-authorizations">>]>>,
        err |-> SAReplyErr(reply)]

CreateServiceAuthorizationResult(in, reply) ==
  IF in.Service.nil \/ in.Service.ID = ""
    THEN [http |-> <<>>, err |-> "ErrMissingServiceAuthorizationsService"]
  ELSE IF in.User.nil \/ in.User.ID = ""
    THEN [http |-> <<>>, err |-> "ErrMissingServiceAuthorizationsUser"]
  ELSE [http |-> <<[method |-> "POST", path |-> <<"service-authorizations">>]>>,
        err |-> SAReplyErr(reply)]

UpdateServiceAuthorizationResult(in, reply) ==
  IF in.ID = "" THEN [http |-> <<>>, err |-> "ErrMissingID"]
  ELSE IF in.Permissions = "" THEN [http |-> <<>>, err |-> "ErrMissingPermissions"]
  ELSE [http |-> <<[method |-> "PATCH", path |-> SAPath(in.ID)]>>,
        err |-> SAReplyErr(reply)]

\* DeleteServiceAuthorization decodes no body: _, err := c.Delete(path, nil).
DeleteServiceAuthorizationResult(in, reply) ==
  IF in.ID = "" THEN [http |-> <<>>, err |-> "ErrMissingID"]
  ELSE [http |-> <<[method |-> "DELETE", path |-> SAPath(in.ID)]>>,
        err |-> IF reply = "transport" THEN "transport" ELSE "nil"]

\* An operation is logged with its input and what it did.
Logged(op, in, res) ==
  /\ Len(ops) < MaxOps
  /\ ops' = Append(ops, [op |-> op, in |-> in, http |-> res.http, err |-> res.err])
  /\ UNCHANGED <<i, p, requests, rets, resp, pre, L, pc, calls, waf>>

GetServiceAuthorization ==
  /\ pc = "ops"
  /\ \E in \in [ID : SAIDs], reply \in SAReplies :
       Logged("GetServiceAuthorization", in, GetServiceAuthorizationResult(in, reply))

CreateServiceAuthorization ==
  /\ pc = "ops"
  /\ \E in \in [Service : SAPtrs, User : SAPtrs], reply \in SAReplies :
       Logged("CreateServiceAuthorization", in, CreateServiceAuthorizationResult(in, reply))

UpdateServiceAuthorization ==
  /\ pc = "ops"
  /\ \E in \in [ID : SAIDs, Permissions : {"", "purge_select"}], reply \in SAReplies :
       Logged("UpdateServiceAuthorization", in, UpdateServiceAuthorizationResult(in, reply))

DeleteServiceAuthorization ==
  /\ pc = "ops"
  /\ \E in \in [ID : SAIDs], reply \in SAReplies :
       Logged("DeleteServiceAuthorization", in, DeleteServiceAuthorizationResult(in, reply))

\* A client on which only these operations are called.
InitSA ==
  /\ i = [PerPage |-> 0, Page |-> 0]
  /\ p = NewPaginator
  /\ requests = <<>>
  /\ rets = <<>>
  /\ resp = NoResponse
  /\ pre = NewPaginator
  /\ L = 0
  /\ pc = "ops"
  /\ calls = NoCalls
  /\ ops = <<>>
  /\ waf = NoWaf

NextSA ==
  \/ GetServiceAuthorization
  \/ CreateServiceAuthorization
  \/ UpdateServiceAuthorization
  \/ DeleteServiceAuthorization

SpecSA == InitSA /\ [][NextSA]_vars

(***************************************************************************)
(* GetWAFRuleStatuses and fetchWAFRuleStatusesPage (src/fastly/waf.go).    *)
(* waf is the call: where it is, its input, the depth of the recursion,    *)
(* the path to fetch next, the paths fetched, the pages decoded, whether a *)
(* fetch or decode failed, answer.Rules and the error returned.            *)
(***************************************************************************)
\* receivedWAFRuleStatus values a page can carry, both relations present.
ReceivedA == [id |-> "s1", rule |-> [id |-> 1], waf |-> [id |-> "w"], status |-> "log"]

ReceivedB == [id |-> "s2", rule |-> [id |-> 2], waf |-> [id |-> "w"], status |-> "block"]

WafItemLists == {<<>>, <<ReceivedA>>, <<ReceivedB>>, <<ReceivedA, ReceivedB>>}

\* The next links of a page: none, or the path of a further page.
WafNextLinks == {"", "/next-a", "/next-b"}

\* What one fetch yields:
\*   transport - c.Get returns an error;
\*   read      - getPages cannot read the body;
\*   decode    - jsonapi.UnmarshalManyPayload fails;
\*   ok        - the page decodes, with its items and its next link.
WafFailures == {[kind |-> k, items |-> <<>>, next |-> ""] : k \in {"transport", "read", "decode"}}

WafPages == {[kind |-> "ok", items |-> its, next |-> n] : its \in WafItemLists, n \in WafNextLinks}

\* The server's chain of pages ends at depth MaxWafPages.
WafResponses(depth) ==
  WafFailures \cup {r \in WafPages : depth < MaxWafPages \/ r.next = ""}

\* receivedWAFRuleStatus.simplify
simplify(received) ==
  [RuleID |-> received.rule.id, WAFID |-> received.waf.id,
   StatusID |-> received.id, Status |-> received.status]

\* AppendRules that puts a page's rule statuses in front.
AppendRules_InFront(rules, items) ==
  [k \in 1..Len(items) |-> simplify(items[k])] \o rules

\* for i := range data { answer.Rules = append(answer.Rules, typed.simplify()) }
AppendRules(rules, items) ==
  rules \o [k \in 1..Len(items) |-> simplify(items[k])]

\* fmt.Sprintf("/service/%s/wafs/%s/rule_statuses", i.Service, i.WAF)
WafFirstPath(in) == <<"service", in.Service, "wafs", in.WAF, "rule_statuses">>

\* The error GetWAFRuleStatuses returns when the fetch at this depth fails:
\* the first call's error is returned (lines 695-699), the error of a
\* recursive call is dropped by its caller, which returns nil (lines 731-734).
WafErr(depth, kind) == IF depth = 1 THEN kind ELSE "nil"

\* GetWAFRuleStatuses up to its first fetch.
GetWAFRuleStatuses ==
  /\ pc = "waf"
  /\ waf.at = "idle"
  /\ \E in \in [Service : {"", "svc"}, WAF : {"", "waf"}] :
       waf' = IF in.Service = ""
                THEN [waf EXCEPT !.at = "returned", !.in = in, !.err = "ErrMissingService"]
              ELSE IF in.WAF = ""
                THEN [waf EXCEPT !.at = "returned", !.in = in, !.err = "ErrMissingWAFID"]
              ELSE [waf EXCEPT !.at = "fetching", !.in = in, !.depth = 1,
                               !.path = WafFirstPath(in)]
  /\ UNCHANGED <<i, p, requests, rets, resp, pre, L, pc, calls, ops>>

\* One call of fetchWAFRuleStatusesPage, up to its recursive call or return.
fetchWAFRuleStatusesPage ==
  /\ pc = "waf"
  /\ waf.at = "fetching"
  /\ \E r \in WafResponses(waf.depth) :
       waf' = IF r.kind # "ok"
                THEN [waf EXCEPT !.at = "returned",
                                 !.fetched = Append(waf.fetched, waf.path),
                                 !.failed = TRUE,
                                 !.err = WafErr(waf.depth, r.kind)]
              ELSE IF r.next # ""
                THEN [waf EXCEPT !.fetched = Append(waf.fetched, waf.path),
                                 !.got = Append(waf.got, r),
                                 !.rules = AppendRules(waf.rules, r.items),
                                 !.path = r.next,
                                 !.depth = waf.depth + 1]
              ELSE [waf EXCEPT !.at = "returned",
                               !.fetched = Append(waf.fetched, waf.path),
                               !.got = Append(waf.got, r),
                               !.rules = AppendRules(waf.rules, r.items),
                               !.err = "nil"]
  /\ UNCHANGED <<i, p, requests, rets, resp, pre, L, pc, calls, ops>>

InitWaf ==
  /\ i = [PerPage |-> 0, Page |-> 0]
  /\ p = NewPaginator
  /\ requests = <<>>
  /\ rets = <<>>
  /\ resp = NoResponse
  /\ pre = NewPaginator
  /\ L = 0
  /\ pc = "waf"
  /\ calls = NoCalls
  /\ ops = <<>>
  /\ waf = NoWaf

NextWaf == GetWAFRuleStatuses \/ fetchWAFRuleStatusesPage

SpecWaf == InitWaf /\ [][NextWaf]_vars

(***************************************************************************)
(* ListGzips, CreateGzip, GetGzip, UpdateGzip and DeleteGzip, as the       *)
(* validation tests of src/fastly/gzip_test.go call them.  The operations  *)
(* are logged in ops like those of the service authorizations.             *)
(***************************************************************************)
\* ListGzipsInput: ServiceID and ServiceVersion.
GzipListInputs == [ServiceID : {"", "foo"}, ServiceVersion : {0, 1}, Name : {""}]

\* The inputs of the other operations, which also carry a Name.
GzipInputs == [ServiceID : {"", "foo"}, ServiceVersion : {0, 1}, Name : {"", "new-test-gzip"}]

\* The operations that address one gzip configuration by its name.
GzipNamedOps == {"GetGzip", "UpdateGzip", "DeleteGzip"}

\* What the server does with a request that reaches it.
GzipReplies == {"ok", "transport"}

\* GzipResult that tests the version before the service.
GzipResult_VersionFirst(op, in, reply) ==
  IF in.ServiceVersion = 0 THEN [http |-> <<>>, err |-> "ErrMissingServiceVersion"]
  ELSE IF in.ServiceID = "" THEN [http |-> <<>>, err |-> "ErrMissingServiceID"]
  ELSE IF op \in GzipNamedOps /\ in.Name = "" THEN [http |-> <<>>, err |-> "ErrMissingName"]
  ELSE [http |-> <<[method |-> op, path |-> <<in.ServiceID, in.ServiceVersion, in.Name>>]>>,
        err |-> IF reply = "ok" THEN "nil" ELSE reply]

\* The input is tested field by field, then the request is issued.
GzipResult(op, in, reply) ==
  IF in.ServiceID = "" THEN [http |-> <<>>, err |-> "ErrMissingServiceID"]
  ELSE IF in.ServiceVersion = 0 THEN [http |-> <<>>, err |-> "ErrMissingServiceVersion"]
  ELSE IF op \in GzipNamedOps /\ in.Name = "" THEN [http |-> <<>>, err |-> "ErrMissingName"]
  ELSE [http |-> <<[method |-> op, path |-> <<in.ServiceID, in.ServiceVersion, in.Name>>]>>,
        err |-> IF reply = "ok" THEN "nil" ELSE reply]

ListGzips ==
  /\ pc = "gzip"
  /\ \E in \in GzipListInputs, reply \in GzipReplies :
       Logged("ListGzips", in, GzipResult("ListGzips", in, reply))

CreateGzip ==
  /\ pc = "gzip"
  /\ \E in \in GzipInputs, reply \in GzipReplies :
       Logged("CreateGzip", in, GzipResult("CreateGzip", in, reply))

GetGzip ==
  /\ pc = "gzip"
  /\ \E in \in GzipInputs, reply \in GzipReplies :
       Logged("GetGzip", in, GzipResult("GetGzip", in, reply))

UpdateGzip ==
  /\ pc = "gzip"
  /\ \E in \in GzipInputs, reply \in GzipReplies :
       Logged("UpdateGzip", in, GzipResult("UpdateGzip", in, reply))

DeleteGzip ==
  /\ pc = "gzip"
  /\ \E in \in GzipInputs, reply \in GzipReplies :
       Logged("DeleteGzip", in, GzipResult("DeleteGzip", in, reply))

InitGzip ==
  /\ i = [PerPage |-> 0, Page |-> 0]
  /\ p = NewPaginator
  /\ requests = <<>>
  /\ rets = <<>>
  /\ resp = NoResponse
  /\ pre = NewPaginator
  /\ L = 0
  /\ pc = "gzip"
  /\ calls = NoCalls
  /\ ops = <<>>
  /\ waf = NoWaf

NextGzip == ListGzips \/ CreateGzip \/ GetGzip \/ UpdateGzip \/ DeleteGzip

SpecGzip == InitGzip /\ [][NextGzip]_vars

(***************************************************************************)
(* Vocabulary of the properties.                                           *)
(***************************************************************************)
Called == rets # <<>>

LastRet == rets[Len(rets)]

LastRequest == requests[Len(requests)]

\* No GetNext has completed successfully so far.
NoneSucceeded == \A k \in 1..Len(rets) : rets[k] # "items"

\* The first n calls all returned items.
AllSucceeded(n) == \A k \in 1..n : rets[k] = "items"

\* The number a query parameter reads as.
Number(n) == [val |-> n, ok |-> TRUE]

\* The first page a paginator with these options asks for.
StartPage == IF i.Page <= 0 THEN 1 ELSE i.Page

(***************************************************************************)
(* C1..C10: the paginator's contract.                                      *)
(***************************************************************************)

\* C1: while no GetNext has completed successfully, HasNext() is true,
\* whatever CurrentPage, NextPage, LastPage and Remaining() are.
C1_HasNextBeforeFirstSuccess == NoneSucceeded => HasNext(p)

\* C1 witness: calls have been made, none succeeded, the cursor has moved.
C1_Witness ==
  /\ Len(rets) >= 2
  /\ NoneSucceeded
  /\ p.CurrentPage # 0
  /\ Remaining(p) = 0

\* The one call made so far succeeded and its last link names the page that
\* was requested.
OneFetchOfLastPage ==
  /\ Len(rets) = 1
  /\ rets[1] = "items"
  /\ resp.last.kind = "param"
  /\ Atoi(resp.last.num).ok
  /\ Atoi(resp.last.num) = Atoi(requests[1].number)

\* C2: after exactly one successful GetNext on a fresh paginator whose
\* response names the requested page as the last page, Remaining() is 0 and
\* HasNext() is false.
C2_LastPageFetched == OneFetchOfLastPage => Remaining(p) = 0 /\ ~HasNext(p)

\* C2 witness: page 2 was asked for and it is the last page.
C2_Witness == OneFetchOfLastPage /\ i.Page = 2 /\ p.LastPage = 2 /\ p.NextPage # 2

\* C3: with no starting page and a server of L pages, the loop requests the
\* pages 1, 2, ..., L in that order, each once, and HasNext() is false
\* exactly from the L-th fetch on.
C3_LoopFetchesEveryPage ==
  i.Page <= 0 =>
    /\ Len(requests) <= L
    /\ \A k \in 1..Len(requests) : Atoi(requests[k].number) = Number(k)
    /\ AllSucceeded(Len(rets))
    /\ HasNext(p) <=> Len(requests) < L
    /\ pc = "done" => Len(requests) = L

\* C3 witness: the loop has ended after more than one page.
C3_Witness == pc = "done" /\ i.Page <= 0 /\ L >= 3 /\ Len(requests) = L

\* C4: when all earlier calls succeeded, the k-th call requests page
\* s + k - 1, s being 1 without a starting page and the starting page
\* otherwise.
C4_KthRequest ==
  \A k \in 1..Len(requests) :
    AllSucceeded(k - 1) => Atoi(requests[k].number) = Number(StartPage + k - 1)

\* C4 witness: three calls from the starting page 2.
C4_Witness ==
  /\ i.Page = 2
  /\ Len(requests) = 3
  /\ AllSucceeded(2)
  /\ requests[3].number = <<"4">>

\* C5: page[size] is the caller's PerPage when that is positive and "100"
\* otherwise.
C5_PageSize ==
  \A k \in 1..Len(requests) :
    /\ i.PerPage <= 0 => requests[k].size = <<"1", "0", "0">>
    /\ i.PerPage > 0 => Atoi(requests[k].size) = Number(i.PerPage)
    /\ i.PerPage = 25 => requests[k].size = <<"2", "5">>

\* C5 witness: the default size emitted for PerPage = 0, on a later call.
C5_Witness ==
  /\ i.PerPage = 0
  /\ Len(requests) >= 2
  /\ LastRequest.size = <<"1", "0", "0">>

\* C6: page[size] is at most maxPerPage, whatever PerPage is.
C6_PageSizeCapped ==
  \A k \in 1..Len(requests) : Atoi(requests[k].size).val <= maxPerPage

\* C7: page[number] is a positive integer in every request.
C7_PageNumberPositive ==
  \A k \in 1..Len(requests) :
    Atoi(requests[k].number).ok /\ Atoi(requests[k].number).val >= 1

\* The last call got a body that decodes and whose next link carries a
\* page[number] that is not a number.
NonNumericNext ==
  /\ Called
  /\ resp.kind = "ok"
  /\ resp.next.kind = "param"
  /\ ~Atoi(resp.next.num).ok

\* C8 as stated: with a non-numeric next link the call returns the items and
\* NextPage keeps the value it had before the call.
C8_NextPageKept ==
  NonNumericNext /\ ~LinkPanics(resp.last) =>
    LastRet = "items" /\ p.NextPage = pre.NextPage

\* C8, amended: with a non-numeric next link the call returns no error and
\* NextPage becomes 0; the items are returned unless the last link aborts
\* the call.
C8_NextPageZeroed ==
  NonNumericNext =>
    /\ LastRet # "error"
    /\ p.NextPage = 0
    /\ ~LinkPanics(resp.last) => LastRet = "items"

\* C8 witness: a non-numeric next link arrives when NextPage was 2.
C8_Witness ==
  /\ NonNumericNext
  /\ LastRet = "items"
  /\ pre.NextPage = 2
  /\ p.NextPage = 0

\* The last call succeeded on a response without a next link.
SucceededWithoutNext ==
  /\ Called
  /\ LastRet = "items"
  /\ resp.next.kind = "absent"

\* HasNext() as a function of LastPage and CurrentPage alone.
HasNextByPages == p.LastPage # 0 /\ p.LastPage - p.CurrentPage # 0

\* C9 as stated: without a next link NextPage is zero after the call and
\* HasNext() reflects only LastPage and CurrentPage.
C9_NextPageZero ==
  SucceededWithoutNext => p.NextPage = 0 /\ (HasNext(p) <=> HasNextByPages)

\* C9, amended: without a next link NextPage keeps the value it had before
\* the call and HasNext() reflects only LastPage and CurrentPage.
C9_NextPageUntouched ==
  SucceededWithoutNext =>
    p.NextPage = pre.NextPage /\ (HasNext(p) <=> HasNextByPages)

\* C9 witness: the response without a next link follows one that named
\* page 2 as the next page, and more pages remain.
C9_Witness ==
  /\ SucceededWithoutNext
  /\ pre.NextPage = 2
  /\ p.NextPage = 2
  /\ HasNext(p)

\* C10 as stated: consumed is false only if no request has been issued.
C10_ConsumedOnIssue == ~p.consumed => requests = <<>>

\* C10, amended: consumed is false exactly as long as no GetNext has
\* completed successfully.
C10_ConsumedOnSuccess == ~p.consumed <=> NoneSucceeded

\* C10 witness: requests have been issued and consumed is still false.
C10_Witness == Len(requests) >= 2 /\ ~p.consumed /\ LastRet = "error"

(***************************************************************************)
(* C11..C20.                                                               *)
(***************************************************************************)

\* C11: no GetNext call aborts the process, whatever the server sends.
C11_NeverAborts == \A k \in 1..Len(rets) : rets[k] # "panic"

\* C12: each GetNext call issues exactly one HTTP GET, and a transport
\* error is returned as an error, without a retry.
C12_OneGetPerCall ==
  /\ Len(requests) = Len(rets)
  /\ Called /\ resp.kind = "transport" => LastRet = "error"

\* C12 witness: two calls hit transport errors and two requests were issued.
C12_Witness ==
  /\ Len(rets) = 2
  /\ rets = <<"error", "error">>
  /\ resp.kind = "transport"
  /\ pre.CurrentPage # 0
  /\ Len(requests) = 2

\* C18: Remaining() is 0 when LastPage is 0 and LastPage - CurrentPage
\* otherwise, and it is 0 as long as no GetNext has succeeded.
C18_Remaining ==
  /\ Remaining(p) = (IF p.LastPage = 0 THEN 0 ELSE p.LastPage - p.CurrentPage)
  /\ NoneSucceeded => Remaining(p) = 0

\* C18 witness: a failed call has moved CurrentPage to 2 and Remaining() is 0.
C18_Witness ==
  /\ Called
  /\ NoneSucceeded
  /\ LastRet = "error"
  /\ p.CurrentPage = 2
  /\ Remaining(p) = 0

\* A link is well formed when it is absent or names a number.
WellFormed(l) == l.kind = "absent" \/ (l.kind = "param" /\ Atoi(l.num).ok)

\* The last call succeeded on a response whose links are well formed.
SucceededWellFormed ==
  /\ Called
  /\ LastRet = "items"
  /\ WellFormed(resp.next)
  /\ WellFormed(resp.last)

\* C19: after a successful GetNext with well-formed links, NextPage and
\* LastPage are the numbers of the next and last links when present, keep
\* their values when absent, and consumed is true.
C19_LinksRecorded ==
  SucceededWellFormed =>
    /\ resp.next.kind = "param" => Atoi(resp.next.num) = Number(p.NextPage)
    /\ resp.next.kind = "absent" => p.NextPage = pre.NextPage
    /\ resp.last.kind = "param" => Atoi(resp.last.num) = Number(p.LastPage)
    /\ resp.last.kind = "absent" => p.LastPage = pre.LastPage
    /\ p.consumed

\* C19 witness: the last link names page 1 after an earlier response named
\* page 2, and the next link is absent with NextPage at 2.
C19_Witness ==
  /\ SucceededWellFormed
  /\ resp.next.kind = "absent"
  /\ pre.NextPage = 2
  /\ resp.last.kind = "param"
  /\ pre.LastPage = 2
  /\ p.LastPage = 1

\* C20: the call that follows a failed GetNext requests the same page again.
C20_RetrySamePage ==
  \A k \in 2..Len(requests) :
    rets[k - 1] = "error" => requests[k].number = requests[k - 1].number

\* Both goroutines have a request in flight, each sent after both calls had
\* stored their page.
BothOverlap ==
  \A t \in Goroutines : calls[t].at = "requested" /\ calls[t].overlap

\* C13: when two GetNext calls on one paginator interleave so that both
\* store CurrentPage before either builds its request, both request the same
\* page number.
C13_RaceSamePage == BothOverlap => calls[1].sent = calls[2].sent

\* C13 witness: on a consumed paginator at page 1 the two calls computed
\* pages 2 and 3 and both requested page 3: page 2 is never fetched.
C13_Witness ==
  /\ BothOverlap
  /\ p.consumed
  /\ calls[1].page = 2
  /\ calls[2].page = 3
  /\ calls[1].sent = <<"3">>
  /\ calls[2].sent = <<"3">>
  /\ \A k \in 1..Len(requests) : requests[k].number # <<"2">>

\* A pointer to a struct with an identifier is missing when it is nil or
\* the identifier is empty.
Missing(ptr) == ptr.nil \/ ptr.ID = ""

\* What the validation of a service-authorization operation must answer:
\* the error, or "nil" when the input is complete.
SAExpected(o) ==
  IF o.op \in {"GetServiceAuthorization", "DeleteServiceAuthorization"}
    THEN IF o.in.ID = "" THEN "ErrMissingID" ELSE "nil"
  ELSE IF o.op = "CreateServiceAuthorization"
    THEN IF Missing(o.in.Service) THEN "ErrMissingServiceAuthorizationsService"
         ELSE IF Missing(o.in.User) THEN "ErrMissingServiceAuthorizationsUser"
         ELSE "nil"
  ELSE IF o.in.ID = "" THEN "ErrMissingID"
       ELSE IF o.in.Permissions = "" THEN "ErrMissingPermissions"
       ELSE "nil"

\* C14: the service-authorization operations validate their identifiers in
\* a fixed order (ID before Permissions, service before user), return the
\* error of the first missing one and then issue no HTTP request.
C14_ValidationOrder ==
  \A k \in 1..Len(ops) :
    IF SAExpected(ops[k]) # "nil"
      THEN ops[k].err = SAExpected(ops[k]) /\ ops[k].http = <<>>
      ELSE Len(ops[k].http) = 1 /\ ops[k].err \in {"nil", "transport", "decode"}

\* C14 witness: a Create with neither service nor user answered with the
\* service error, then an Update with neither ID nor Permissions answered
\* with ErrMissingID, and no request issued.
C14_Witness ==
  /\ Len(ops) = 2
  /\ ops[1].op = "CreateServiceAuthorization"
  /\ Missing(ops[1].in.Service) /\ Missing(ops[1].in.User)
  /\ ops[1].err = "ErrMissingServiceAuthorizationsService"
  /\ ops[2].op = "UpdateServiceAuthorization"
  /\ ops[2].in.ID = "" /\ ops[2].in.Permissions = ""
  /\ ops[2].err = "ErrMissingID"
  /\ ops[1].http = <<>> /\ ops[2].http = <<>>

\* C15: GetWAFRuleStatuses returns a non-nil error whenever the fetch or
\* the decode of a page failed, the first page or a later one.
C15_FailureReported ==
  waf.at = "returned" /\ waf.failed => waf.err # "nil"

\* The items of the pages received, in the order of the pages.
RECURSIVE Received(_)
Received(pages) ==
  IF pages = <<>> THEN <<>>
  ELSE Received(SubSeq(pages, 1, Len(pages) - 1)) \o pages[Len(pages)].items

\* The input is valid and no fetch or decode has failed.
WafAllSucceeded ==
  /\ waf.at \in {"fetching", "returned"}
  /\ waf.in.Service # "" /\ waf.in.WAF # ""
  /\ ~waf.failed

C17_GzipValidationOrder ==
  \A k \in 1..Len(ops) :
    /\ ops[k].in.ServiceID = "" => ops[k].err = "ErrMissingServiceID"
    /\ ops[k].in.ServiceID # "" /\ ops[k].in.ServiceVersion = 0 =>
         ops[k].err = "ErrMissingServiceVersion"
    /\ ops[k].in.ServiceID # "" /\ ops[k].in.ServiceVersion # 0 /\ ops[k].in.Name = "" =>
         IF ops[k].op \in {"GetGzip", "UpdateGzip", "DeleteGzip"}
           THEN ops[k].err = "ErrMissingName"
           ELSE ops[k].err \notin
                  {"ErrMissingServiceID", "ErrMissingServiceVersion", "ErrMissingName"}

\* C17 witness: DeleteGzip with nothing set answers ErrMissingServiceID and
\* GetGzip with only the name missing answers ErrMissingName.
C17_Witness ==
  /\ Len(ops) = 2
  /\ ops[1].op = "DeleteGzip"
  /\ ops[1].in = [ServiceID |-> "", ServiceVersion |-> 0, Name |-> ""]
  /\ ops[1].err = "ErrMissingServiceID"
  /\ ops[2].op = "GetGzip"
  /\ ops[2].in = [ServiceID |-> "foo", ServiceVersion |-> 1, Name |-> ""]
  /\ ops[2].err = "ErrMissingName"

(***************************************************************************)
(* C21..C22.                                                               *)
(***************************************************************************)

\* C21: against a server of L pages the caller's loop reaches
\* HasNext() = false whatever the starting page, also one beyond L: once as
\* many pages were fetched as the server has, the loop has nothing left.
C21_LoopEnds == pc = "loop" /\ Len(rets) >= L => ~HasNext(p)

\* Why a loop that misses the last page never ends: a negative Remaining()
\* only falls with each further fetch.
RemainingFalls ==
  [][pc = "loop" /\ p.consumed /\ Remaining(p) < 0 /\ requests' # requests
       => Remaining(p') < Remaining(p) /\ HasNext(p')]_vars

\* The last call succeeded and its response carries a next link that names
\* a page number.
NextLinkGiven ==
  /\ Called
  /\ LastRet = "items"
  /\ resp.next.kind = "param"
  /\ Atoi(resp.next.num).ok

\* A further GetNext call issues its request in this step.
Requesting == Len(requests') = Len(requests) + 1

\* C22 as stated: the call after a successful GetNext with a well-formed
\* next link requests the page that link names, the recorded NextPage.
C22_FollowsNextLink ==
  [][NextLinkGiven /\ Requesting
       => /\ Atoi(resp.next.num) = Number(p.NextPage)
          /\ Atoi(requests'[Len(requests')].number) = Number(p.NextPage)]_vars

\* C22, amended: the call after a successful GetNext requests
\* CurrentPage + 1, whatever page the next link names; NextPage is recorded
\* and not read.
C22_RequestsCurrentPagePlusOne ==
  [][NextLinkGiven /\ Requesting
       => /\ Atoi(resp.next.num) = Number(p.NextPage)
          /\ Atoi(requests'[Len(requests')].number) = Number(p.CurrentPage + 1)]_vars

\* C22 witness: the first response, to the request of page 1, named page 1
\* as the next page, and the second call requested page 2.
C22_Witness ==
  /\ Len(requests) = 2
  /\ rets[1] = "items"
  /\ pre.CurrentPage = 1
  /\ pre.NextPage = 1
  /\ requests[2].number = <<"2">>

====
